---- MODULE Spec2Model ----
(***************************************************************************)
(* Model of zfs_backup.py: generational snapshot backups between a source  *)
(* pool and a backup pool, one run per invocation, serialised by a file    *)
(* lock on the run file.                                                   *)
(*                                                                         *)
(* Strings that the program builds and parses are modelled structurally:   *)
(* a snapshot name is a record (pool, dataset, label) and a label is the   *)
(* sequence of its "-" separated tokens; a token is either a word or a     *)
(* formatted date-time.                                                    *)
(***************************************************************************)
EXTENDS Integers, Sequences, FiniteSets, TLC

\* ---------------------------------------------------------------- bounds
\* number of invocations started concurrently
NumProcs == 2
\* keep-counts range over 0..MaxKeep
MaxKeep == 2
\* latest creation time of the snapshots that exist before the first invocation
MaxInitTime == 2
\* number of snapshots that exist before the first invocation
MaxInitSnaps == 2
\* number of command executions in one behaviour that fail for a reason
\* outside the model (an I/O error, a busy dataset, ...)
MaxFaults == 1

Procs == 1..NumProcs

\* ---------------------------------------------------------------- values
Tiers == {"daily", "weekly", "monthly", "yearly"}
\* values of -b that the model draws: a tier and an unsupported word
BackupTypes == {"daily", "hourly"}
Healths == {"ONLINE", "DEGRADED"}
\* capacity property of the backup pool as zpool get -p prints it: the
\* percentage of the pool that is used
Capacities == {0, 80}
\* words made of the characters [a-z_] only
LowerWords == Tiers \cup {"bk", "hourly", "manual"}

Min(a, b) == IF a < b THEN a ELSE b
Max(a, b) == IF a < b THEN b ELSE a
Range(s) == {s[i] : i \in DOMAIN s}

RECURSIVE Perms(_)
\* all orders in which a listing may print the elements of S
Perms(S) ==
    IF S = {} THEN {<<>>}
    ELSE UNION {{<<x>> \o q : q \in Perms(S \ {x})} : x \in S}

\* ---------------------------------------------------------------- tokens
Word(w) == [kind |-> "word", word |-> w, sec |-> 0]
TimeTok(t) == [kind |-> "time", word |-> "", sec |-> t]

\* datetime.strftime(DATE_TIME_FORMAT)
strftime(t) == TimeTok(t)

\* datetime.strptime(s, DATE_TIME_FORMAT): ValueError unless s is a date-time
strptime(tok) ==
    IF tok.kind = "time" THEN [ok |-> TRUE, time |-> tok.sec]
    ELSE [ok |-> FALSE, time |-> 0]

\* ---------------------------------------------------------------- Config
Config(k) ==
    [pool |-> "tank", backup_pool |-> "backup", datasets |-> <<"data", "home">>,
     num_backups_daily |-> k, num_backups_weekly |-> k,
     num_backups_monthly |-> k, nums_backups_yearly |-> k,
     prefix |-> "bk"]

\* Config.get_num_backups: ok = FALSE stands for the exit(1) of an unsupported type
get_num_backups(cfg, t) ==
    IF t = "daily" THEN [ok |-> TRUE, n |-> cfg.num_backups_daily]
    ELSE IF t = "weekly" THEN [ok |-> TRUE, n |-> cfg.num_backups_weekly]
    ELSE IF t = "monthly" THEN [ok |-> TRUE, n |-> cfg.num_backups_monthly]
    ELSE IF t = "yearly" THEN [ok |-> TRUE, n |-> cfg.nums_backups_yearly]
    ELSE [ok |-> FALSE, n |-> 0]

\* ---------------------------------------------------------------- Snapshot
Snapshot(p, d, bp, ty, tm, pre) ==
    [pool |-> p, dataset |-> d, backup_pool |-> bp, backup_type |-> ty,
     backup_time |-> tm, prefix |-> pre]

get_snap_name(s) == <<Word(s.prefix), Word(s.backup_type), strftime(s.backup_time)>>

get_full_qualified_snap_name(s) ==
    [pool |-> s.pool, dataset |-> s.dataset, label |-> get_snap_name(s)]

get_full_qualified_backup_snap_name(s) ==
    [pool |-> s.backup_pool, dataset |-> s.dataset, label |-> get_snap_name(s)]

\* a snapshot name outside the generational scheme, e.g. tank/data@manual
ForeignName(p, d) == [pool |-> p, dataset |-> d, label |-> <<Word("manual")>>]

\* ---------------------------------------------------------------- get_snapshots
\* regex ^.*@([a-z_]+)-([a-z_]+)-(DATE_TIME_PATTERN)$
RegexMatch(line) ==
    /\ Len(line.label) = 3
    /\ line.label[1].kind = "word" /\ line.label[1].word \in LowerWords
    /\ line.label[2].kind = "word" /\ line.label[2].word \in LowerWords
    /\ line.label[3].kind = "time"

\* the regex group that get_snapshots hands to strptime: group 2, the tier
BackupTimeGroup(line) == line.label[2]

\* the loop of get_snapshots over the lines of the listing; ok = FALSE stands
\* for the ValueError that strptime raises out of get_snapshots
ParseLines(cfg, d, lines) ==
    LET matched == SelectSeq(lines, RegexMatch)
    IN  IF \E i \in DOMAIN matched : ~strptime(BackupTimeGroup(matched[i])).ok
        THEN [ok |-> FALSE, snaps |-> <<>>]
        ELSE [ok |-> TRUE,
              snaps |-> [i \in DOMAIN matched |->
                            Snapshot(cfg.pool, d, cfg.backup_pool,
                                     matched[i].label[2].word,
                                     strptime(BackupTimeGroup(matched[i])).time,
                                     matched[i].label[1].word)]]

\* ---------------------------------------------------------------- ZPoolStatus
ZPoolStatus(name, available, health, capacity) ==
    [name |-> name, available |-> available, health |-> health,
     capacity_in_percent |-> capacity]

\* get_zpool_status: the query fails exactly when the pool is not imported
get_zpool_status(name, pool) ==
    IF ~pool.available THEN ZPoolStatus(name, FALSE, "UNAVAIL", 0)
    ELSE ZPoolStatus(name, TRUE, pool.health, pool.capacity)

\* ---------------------------------------------------------------- state
VARIABLES
    config,       \* the Config record read by read_config
    backup_type,  \* the value of the -b option
    lockHolder,   \* the invocation that holds the FileLock on the run file, or 0
    runFile,      \* content of the run file: <<pid>>, or <<>> for empty
    srcPool,      \* the source pool: [available, health, capacity]
    bakPool,      \* the backup pool: [available, health, capacity]
    srcSnaps,     \* names of the snapshots on the source pool
    bakSnaps,     \* names of the snapshots on the backup pool
    now,          \* the wall clock, in seconds
    pc,           \* position of each invocation
    dsIdx,        \* index of the dataset the for loop of __main__ is at
    loc,          \* the local variables of backup()
    exit,         \* exit status of each invocation: [code, cause], code -1 while running
    cmds,         \* the external commands each invocation has executed, in order
    mail,         \* the notifications each invocation has sent
    waited,       \* the invocation found the lock held when it tried to acquire it
    inv0,         \* source snapshot names of the dataset when backup() was entered
    faults        \* command executions that have failed for an outside reason

vars == <<config, backup_type, lockHolder, runFile, srcPool, bakPool, srcSnaps,
          bakSnaps, now, pc, dsIdx, loc, exit, cmds, mail, waited, inv0, faults>>

Cmd(c, pool, ds, snap, base, rc) ==
    [cmd |-> c, pool |-> pool, ds |-> ds, snap |-> snap, base |-> base, rc |-> rc]

Mail(sev, kind, pool, health, cap) ==
    [severity |-> sev, kind |-> kind, pool |-> pool, health |-> health, capacity |-> cap]

NoLocals ==
    [num_backups_to_keep |-> 0, backupPoolImport |-> FALSE, stdout |-> <<>>,
     all_snapshots |-> <<>>, snapshots |-> <<>>, last_snapshot |-> <<>>,
     new_snap |-> <<>>]

\* the loop variable of "for dataset in config.datasets"
Dataset_Backwards(p) == config.datasets[Len(config.datasets) + 1 - dsIdx[p]]
Dataset(p) == config.datasets[dsIdx[p]]

\* ---------------------------------------------------------------- Init
Gen(d, ty, tm) == get_full_qualified_snap_name(Snapshot("tank", d, "backup", ty, tm, "bk"))

\* names that may exist on the source pool before the first invocation
InitUniverse ==
    {Gen("data", "daily", 1), Gen("data", "weekly", MaxInitTime),
     ForeignName("tank", "data"), Gen("home", "daily", 1)}

\* the health of a source pool that is not imported is never read
UnhealthyExported(c) == [available |-> FALSE, health |-> "DEGRADED", capacity |-> c]

OnBackup(names) == {[n EXCEPT !.pool = "backup"] : n \in names}

StopsAtSource ==
    \/ ~srcPool.available
    \/ srcPool.health # "ONLINE"
    \/ backup_type \notin Tiers

Init ==
    /\ \E k \in 0..MaxKeep : config = Config(k)
    /\ backup_type \in BackupTypes
    /\ lockHolder = 0
    /\ runFile = <<>>
    /\ srcPool \in {[available |-> a, health |-> h, capacity |-> 50] :
                        a \in BOOLEAN, h \in Healths} \ {UnhealthyExported(50)}
    /\ bakPool \in [available : BOOLEAN, health : Healths, capacity : Capacities]
    /\ srcSnaps \in {S \in SUBSET InitUniverse : Cardinality(S) <= MaxInitSnaps}
    /\ bakSnaps = OnBackup({n \in srcSnaps : RegexMatch(n)})
    /\ now = MaxInitTime + 1
    \* a run that stops at the source pool or at the tier reads neither the
    \* keep-count, nor the backup pool's health, nor the inventory
    /\ StopsAtSource => /\ config = Config(MaxKeep)
                        /\ bakPool.health = "ONLINE"
                        /\ \A c \in Capacities : bakPool.capacity <= c
                        /\ srcSnaps = {}
    /\ pc = [p \in Procs |-> "acquire"]
    /\ dsIdx = [p \in Procs |-> 0]
    /\ loc = [p \in Procs |-> NoLocals]
    /\ exit = [p \in Procs |-> [code |-> -1, cause |-> "running"]]
    /\ cmds = [p \in Procs |-> <<>>]
    /\ mail = [p \in Procs |-> <<>>]
    /\ waited = [p \in Procs |-> FALSE]
    /\ inv0 = [p \in Procs |-> {}]
    /\ faults = 0

\* ---------------------------------------------------------------- __main__
\* FileLock.acquire() with the default timeout blocks until the lock is free
LockFree_Always == TRUE
LockFree == lockHolder = 0

\* leaving the "with _lock.acquire()" block, normally or by an exception
LockAfterExit_Kept(p) == p
LockAfterExit(p) == 0

\* the run file after the block was left by exit(1) or an exception
RunFileAfterAbort == runFile

\* exit(1), or an uncaught exception, inside the with block
Abort(p, cause) ==
    /\ pc' = [pc EXCEPT ![p] = "exited"]
    /\ exit' = [exit EXCEPT ![p] = [code |-> 1, cause |-> cause]]
    /\ lockHolder' = LockAfterExit(p)
    /\ runFile' = RunFileAfterAbort

Continue(p, next) ==
    /\ pc' = [pc EXCEPT ![p] = next]
    /\ UNCHANGED <<exit, lockHolder, runFile>>

\* the invocations are interchangeable: they are numbered in the order in
\* which they obtain the lock
InTurn(p) == \A q \in Procs : q < p => pc[q] # "acquire"

Acquire(p) ==
    /\ pc[p] = "acquire"
    /\ InTurn(p)
    /\ LockFree
    /\ lockHolder' = p
    /\ pc' = [pc EXCEPT ![p] = "write_pid"]
    /\ UNCHANGED <<config, backup_type, runFile, srcPool, bakPool, srcSnaps, bakSnaps,
                   now, dsIdx, loc, exit, cmds, mail, waited, inv0, faults>>

\* an attempt to take the lock while another invocation holds it: keep waiting
WaitLock(p) ==
    /\ pc[p] = "acquire"
    /\ ~LockFree
    /\ ~waited[p]
    /\ waited' = [waited EXCEPT ![p] = TRUE]
    /\ UNCHANGED <<config, backup_type, lockHolder, runFile, srcPool, bakPool, srcSnaps,
                   bakSnaps, now, pc, dsIdx, loc, exit, cmds, mail, inv0, faults>>

WritePid(p) ==
    /\ pc[p] = "write_pid"
    /\ runFile' = <<p>>
    /\ pc' = [pc EXCEPT ![p] = "for"]
    /\ UNCHANGED <<config, backup_type, lockHolder, srcPool, bakPool, srcSnaps, bakSnaps,
                   now, dsIdx, loc, exit, cmds, mail, waited, inv0, faults>>

\* head of "for dataset in config.datasets"
ForDataset(p) ==
    /\ pc[p] = "for"
    /\ IF dsIdx[p] < Len(config.datasets)
       THEN /\ dsIdx' = [dsIdx EXCEPT ![p] = @ + 1]
            /\ pc' = [pc EXCEPT ![p] = "backup"]
       ELSE /\ dsIdx' = dsIdx
            /\ pc' = [pc EXCEPT ![p] = "clear"]
    /\ UNCHANGED <<config, backup_type, lockHolder, runFile, srcPool, bakPool, srcSnaps,
                   bakSnaps, now, loc, exit, cmds, mail, waited, inv0, faults>>

ClearRunFile(p) ==
    /\ pc[p] = "clear"
    /\ runFile' = <<>>
    /\ pc' = [pc EXCEPT ![p] = "release"]
    /\ UNCHANGED <<config, backup_type, lockHolder, srcPool, bakPool, srcSnaps, bakSnaps,
                   now, dsIdx, loc, exit, cmds, mail, waited, inv0, faults>>

Release(p) ==
    /\ pc[p] = "release"
    /\ lockHolder' = LockAfterExit(p)
    /\ pc' = [pc EXCEPT ![p] = "done"]
    /\ exit' = [exit EXCEPT ![p] = [code |-> 0, cause |-> "none"]]
    /\ UNCHANGED <<config, backup_type, runFile, srcPool, bakPool, srcSnaps, bakSnaps,
                   now, dsIdx, loc, cmds, mail, waited, inv0, faults>>

\* ---------------------------------------------------------------- backup()
\* an execution that fails for an outside reason (ok = FALSE) uses up one fault
Fails(ok) == IF ok THEN 0 ELSE 1

Charge(n) ==
    /\ faults + n <= MaxFaults
    /\ faults' = faults + n

\* line 366: the health the run accepts for the source pool
SourceHealthy_Any(st) == TRUE
SourceHealthy(st) == st.health = "ONLINE"

\* line 383: the condition of the low-capacity warning,
\* capacity_in_percent < 0.2, in tenths
LowCapacity(st) == st.capacity_in_percent * 10 < 2

\* line 389: the value of sorted() is dropped, _all_snapshots stays in listing order
AfterSorted(all) == all

\* lines 355-367: keep-count of the tier, probe of the source pool
BackupStart(p) ==
    /\ pc[p] = "backup"
    /\ LET nb == get_num_backups(config, backup_type)
           st == get_zpool_status(config.pool, srcPool)
           probe == Cmd("zpool get", config.pool, "", <<>>, <<>>,
                        IF st.available THEN 0 ELSE 1)
       IN  /\ loc' = [loc EXCEPT ![p] = [NoLocals EXCEPT !.num_backups_to_keep = nb.n]]
           /\ inv0' = [inv0 EXCEPT ![p] = {n \in srcSnaps : n.dataset = Dataset(p)}]
           /\ IF ~nb.ok
              THEN /\ Abort(p, "type")
                   /\ UNCHANGED <<cmds, mail>>
              ELSE /\ cmds' = [cmds EXCEPT ![p] = Append(@, probe)]
                   /\ IF ~st.available
                      THEN /\ mail' = [mail EXCEPT ![p] = Append(@,
                                  Mail("failure", "not available", st.name, "", 0))]
                           /\ Abort(p, "pool")
                      ELSE IF ~SourceHealthy(st)
                      THEN /\ mail' = [mail EXCEPT ![p] = Append(@,
                                  Mail("failure", "not healthy", st.name, st.health, 0))]
                           /\ Abort(p, "pool")
                      ELSE /\ mail' = mail
                           /\ Continue(p, "probe_backup")
    /\ UNCHANGED <<config, backup_type, srcPool, bakPool, srcSnaps, bakSnaps, now,
                   dsIdx, waited, faults>>

\* lines 369-385: probe of the backup pool, import when it is not available,
\* health check and capacity warning. exec_cmd_and_exit_on_error runs the
\* import command twice and tests the return code of the first execution;
\* ok1 and ok2 say whether the first and the second execution can succeed
ProbeBackup(p) ==
    /\ pc[p] = "probe_backup"
    /\ \E ok1, ok2 \in BOOLEAN :
        LET bp == config.backup_pool
            st1 == get_zpool_status(bp, bakPool)
            get1 == Cmd("zpool get", bp, "", <<>>, <<>>, IF st1.available THEN 0 ELSE 1)
            rc1 == IF ok1 THEN 0 ELSE 1
            \* importing a pool that is imported already fails
            rc2 == IF ~ok1 /\ ok2 THEN 0 ELSE 1
            pool2 == IF st1.available THEN bakPool
                     ELSE [bakPool EXCEPT !.available = ok1 \/ ok2]
            st == get_zpool_status(bp, pool2)
            log == IF st1.available THEN <<get1>>
                   ELSE <<get1, Cmd("zpool import", bp, "", <<>>, <<>>, rc1),
                          Cmd("zpool import", bp, "", <<>>, <<>>, rc2)>>
                        \o (IF rc1 = 0 THEN <<Cmd("zpool get", bp, "", <<>>, <<>>, 0)>>
                            ELSE <<>>)
        IN  /\ st1.available => ok1
            /\ ok1 => ok2
            /\ Charge(Fails(ok1) + Fails(ok2))
            /\ bakPool' = pool2
            /\ cmds' = [cmds EXCEPT ![p] = @ \o log]
            /\ IF ~st1.available /\ rc1 # 0
               THEN /\ Abort(p, "cmd")
                    /\ UNCHANGED <<loc, mail>>
               ELSE /\ loc' = [loc EXCEPT ![p].backupPoolImport = ~st1.available]
                    /\ IF st.health # "ONLINE"
                       THEN /\ mail' = [mail EXCEPT ![p] = Append(@,
                                   Mail("failure", "not healthy", st.name, st.health, 0))]
                            /\ Abort(p, "pool")
                       ELSE /\ mail' = [mail EXCEPT ![p] =
                                   IF LowCapacity(st)
                                   THEN Append(@, Mail("warning", "low capacity", st.name,
                                                       "", st.capacity_in_percent))
                                   ELSE @]
                            /\ Continue(p, "list")
    /\ UNCHANGED <<config, backup_type, srcPool, srcSnaps, bakSnaps, now, dsIdx,
                   waited, inv0>>

\* lines 387-401: get_snapshots and the selection of the tier's snapshots and
\* of the last snapshot. exec_cmd_and_exit_on_error runs the listing twice,
\* tests the return code of the first execution (rc1) and returns the result
\* of the second (rc2, out); a listing that fails prints no names
GetSnapshots(p) ==
    /\ pc[p] = "list"
    /\ \E rc1, rc2 \in {0, 1} :
       \E out \in (IF rc2 = 0 THEN Perms({n \in srcSnaps : n.dataset = Dataset(p)})
                   ELSE {<<>>}) :
        LET stdout == out
            parsed == ParseLines(config, Dataset(p), stdout)
            all == AfterSorted(parsed.snaps)
            isTier(s) == s.backup_type = backup_type
        IN  /\ Charge(rc1 + rc2)
            /\ cmds' = [cmds EXCEPT ![p] = @ \o
                          <<Cmd("zfs list", config.pool, Dataset(p), <<>>, <<>>, rc1),
                            Cmd("zfs list", config.pool, Dataset(p), <<>>, <<>>, rc2)>>]
            /\ IF rc1 # 0
               THEN /\ Abort(p, "cmd")
                    /\ loc' = loc
               ELSE IF ~parsed.ok
               THEN /\ Abort(p, "ValueError")
                    /\ loc' = [loc EXCEPT ![p].stdout = stdout]
               ELSE /\ Continue(p, "prune")
                    /\ loc' = [loc EXCEPT
                          ![p].stdout = stdout,
                          ![p].all_snapshots = all,
                          ![p].snapshots = SelectSeq(all, isTier),
                          ![p].last_snapshot =
                              IF Len(all) > 0 THEN <<all[Len(all)]>> ELSE <<>>]
    /\ UNCHANGED <<config, backup_type, srcPool, bakPool, srcSnaps, bakSnaps, now,
                   dsIdx, mail, waited, inv0>>

\* line 403: the condition of the eviction loop
EvictMore(p) == Len(loc[p].snapshots) > loc[p].num_backups_to_keep - 1

\* lines 403-404: one iteration of the eviction loop. pop(0) of an empty list
\* raises IndexError; Snapshot.destroy destroys the source snapshot and then
\* its copy on the backup pool, each by one zfs destroy. (ParseLines returns
\* no descriptor for any listing, see BackupTimeGroup, so the list is empty
\* whenever this step is reached.)
Prune(p) ==
    /\ pc[p] = "prune"
    /\ EvictMore(p)
    /\ \E ok1, ok2 \in BOOLEAN :
        IF Len(loc[p].snapshots) = 0
        THEN /\ ok1 /\ ok2
             /\ Abort(p, "IndexError")
             /\ UNCHANGED <<loc, cmds, srcSnaps, bakSnaps, faults>>
        ELSE LET snap == Head(loc[p].snapshots)
                 src == get_full_qualified_snap_name(snap)
                 bak == get_full_qualified_backup_snap_name(snap)
                 rc1 == IF ok1 /\ src \in srcSnaps THEN 0 ELSE 1
                 rc2 == IF ok2 /\ bak \in bakSnaps /\ bakPool.available THEN 0 ELSE 1
                 d1 == Cmd("zfs destroy", snap.pool, snap.dataset, src.label, <<>>, rc1)
                 d2 == Cmd("zfs destroy", snap.backup_pool, snap.dataset, bak.label,
                           <<>>, rc2)
             IN  /\ ok1 \/ ok2
                 /\ Charge(Fails(ok1) + Fails(ok2))
                 /\ loc' = [loc EXCEPT ![p].snapshots = Tail(@)]
                 /\ IF rc1 # 0
                    THEN /\ cmds' = [cmds EXCEPT ![p] = Append(@, d1)]
                         /\ UNCHANGED <<srcSnaps, bakSnaps>>
                         /\ Abort(p, "cmd")
                    ELSE /\ cmds' = [cmds EXCEPT ![p] = @ \o <<d1, d2>>]
                         /\ srcSnaps' = srcSnaps \ {src}
                         /\ IF rc2 # 0
                            THEN /\ bakSnaps' = bakSnaps
                                 /\ Abort(p, "cmd")
                            ELSE /\ bakSnaps' = bakSnaps \ {bak}
                                 /\ Continue(p, "prune")
    /\ UNCHANGED <<config, backup_type, srcPool, bakPool, now, dsIdx, mail, waited, inv0>>

\* lines 406-411 and 115-116: the new Snapshot with the current time and its
\* zfs snapshot; every reading of the clock falls into a second of its own
CreateSnapshot(p) ==
    /\ pc[p] = "prune"
    /\ ~EvictMore(p)
    /\ \E ok \in BOOLEAN :
        LET t == now
            new_snap == Snapshot(config.pool, Dataset(p), config.backup_pool,
                                 backup_type, t, config.prefix)
            name == get_full_qualified_snap_name(new_snap)
            \* a snapshot of that name may exist already
            rc == IF ok /\ name \notin srcSnaps THEN 0 ELSE 1
        IN  /\ Charge(Fails(ok))
            /\ now' = now + 1
            /\ cmds' = [cmds EXCEPT ![p] = Append(@,
                   Cmd("zfs snapshot", new_snap.pool, new_snap.dataset, name.label,
                       <<>>, rc))]
            /\ loc' = [loc EXCEPT ![p].new_snap = <<new_snap>>]
            /\ IF rc # 0
               THEN /\ Abort(p, "cmd")
                    /\ srcSnaps' = srcSnaps
               ELSE /\ Continue(p, "send")
                    /\ srcSnaps' = srcSnaps \cup {name}
    /\ UNCHANGED <<config, backup_type, srcPool, bakPool, bakSnaps, dsIdx, mail,
                   waited, inv0>>

\* lines 118-133: the transfer. Without a last snapshot the stream is a full
\* one, which zfs recv -F refuses while the backup dataset holds snapshots;
\* with a last snapshot the stream is incremental and needs that snapshot on
\* both pools
Send(p) ==
    /\ pc[p] = "send"
    /\ \E ok \in BOOLEAN :
        LET new_snap == loc[p].new_snap[1]
            last == loc[p].last_snapshot
            bak == get_full_qualified_backup_snap_name(new_snap)
            full == last = <<>>
            baseOk == IF full
                      THEN \A n \in bakSnaps : n.dataset # new_snap.dataset
                      ELSE /\ get_full_qualified_snap_name(last[1]) \in srcSnaps
                           /\ get_full_qualified_backup_snap_name(last[1]) \in bakSnaps
            rc == IF ok /\ baseOk /\ bakPool.available THEN 0 ELSE 1
            base == IF full THEN <<>> ELSE <<get_snap_name(last[1])>>
        IN  /\ Charge(Fails(ok))
            /\ cmds' = [cmds EXCEPT ![p] = Append(@,
                   Cmd("zfs send", new_snap.backup_pool, new_snap.dataset, bak.label,
                       base, rc))]
            /\ IF rc # 0
               THEN /\ Abort(p, "cmd")
                    /\ bakSnaps' = bakSnaps
               ELSE /\ Continue(p, "export")
                    /\ bakSnaps' = bakSnaps \cup {bak}
    /\ UNCHANGED <<config, backup_type, srcPool, bakPool, srcSnaps, now, dsIdx, loc,
                   mail, waited, inv0>>

\* lines 413-414: export of the backup pool that this call imported; the
\* export command, too, is run twice and the first return code is tested
Export(p) ==
    /\ pc[p] = "export"
    /\ \E ok1, ok2 \in BOOLEAN :
        LET bp == config.backup_pool
            rc1 == IF ok1 /\ bakPool.available THEN 0 ELSE 1
            \* exporting a pool that is exported already fails
            rc2 == IF ok2 /\ bakPool.available /\ rc1 # 0 THEN 0 ELSE 1
        IN  IF loc[p].backupPoolImport
            THEN /\ ok1 => ok2
                 /\ Charge(Fails(ok1) + Fails(ok2))
                 /\ bakPool' = [bakPool EXCEPT !.available = @ /\ rc1 # 0 /\ rc2 # 0]
                 /\ cmds' = [cmds EXCEPT ![p] = @ \o
                        <<Cmd("zpool export", bp, "", <<>>, <<>>, rc1),
                          Cmd("zpool export", bp, "", <<>>, <<>>, rc2)>>]
                 /\ IF rc1 # 0 THEN Abort(p, "cmd") ELSE Continue(p, "for")
            ELSE /\ ok1 /\ ok2
                 /\ UNCHANGED <<bakPool, cmds, faults>>
                 /\ Continue(p, "for")
    /\ UNCHANGED <<config, backup_type, srcPool, srcSnaps, bakSnaps, now, dsIdx, loc,
                   mail, waited, inv0>>

\* ---------------------------------------------------------------- specification
Next ==
    \E p \in Procs :
        \/ Acquire(p)
        \/ WaitLock(p)
        \/ WritePid(p)
        \/ ForDataset(p)
        \/ BackupStart(p)
        \/ ProbeBackup(p)
        \/ GetSnapshots(p)
        \/ Prune(p)
        \/ CreateSnapshot(p)
        \/ Send(p)
        \/ Export(p)
        \/ ClearRunFile(p)
        \/ Release(p)

Spec == Init /\ [][Next]_vars

\* ---------------------------------------------------------------- notions used by the properties
\* positions inside the "with _lock.acquire()" block
LockedPcs == {"write_pid", "for", "backup", "probe_backup", "list", "prune", "send",
              "export", "clear", "release"}

Ended(p) == pc[p] \in {"done", "exited"}

\* the exceptions that the program raises by itself
ProgramExceptions == {"ValueError", "IndexError"}

\* the call of backup() for the current dataset of p is over: it returned, or
\* it was left by an exception of the program (not by a failed command, an
\* unhealthy pool or an unsupported tier)
CycleOver(p) ==
    \/ pc[p] \in {"export", "clear", "release", "done"}
    \/ pc[p] = "for" /\ dsIdx[p] >= 1
    \/ pc[p] = "exited" /\ exit[p].cause \in ProgramExceptions

\* get_snapshots is over for the current dataset of p
PastListing(p) == pc[p] \in {"prune", "send"} \/ CycleOver(p)

\* the names of the generational scheme among a set of names
GenNames(S) == {n \in S : RegexMatch(n)}
TierOf(n) == n.label[2].word
TimeOf(n) == n.label[3].sec

KeepCount == get_num_backups(config, backup_type).n

\* generational snapshots of the tier in the dataset of p: when backup() was
\* entered, and now
TierAtStart(p) == {n \in GenNames(inv0[p]) : TierOf(n) = backup_type}
TierNow(p) ==
    {n \in GenNames(srcSnaps) : n.dataset = Dataset(p) /\ TierOf(n) = backup_type}

\* the executions of command c that p has run for its current dataset
Executed(p, c) ==
    {i \in DOMAIN cmds[p] : cmds[p][i].cmd = c /\ cmds[p][i].ds = Dataset(p)}
Succeeded(p, c) == {i \in Executed(p, c) : cmds[p][i].rc = 0}

\* successful executions of a pool command by p
PoolOps(p, c) == {i \in DOMAIN cmds[p] : cmds[p][i].cmd = c /\ cmds[p][i].rc = 0}

\* ---------------------------------------------------------------- C1
\* C1 (as claimed): with keep-count K >= 1 and N snapshots in the tier when
\* the cycle starts, a cycle in which no command fails leaves min(K, N+1)
\* snapshots in the tier and has destroyed exactly the max(0, N+1-K) oldest.
C1_RetentionAfterCycle ==
    \A p \in Procs :
        (faults = 0 /\ CycleOver(p) /\ KeepCount >= 1) =>
            LET N == Cardinality(TierAtStart(p))
                destroyed == TierAtStart(p) \ TierNow(p)
            IN  /\ Cardinality(TierNow(p)) = Min(KeepCount, N + 1)
                /\ Cardinality(destroyed) = Max(0, N + 1 - KeepCount)
                /\ \A x \in destroyed : \A y \in TierAtStart(p) \ destroyed :
                       TimeOf(x) < TimeOf(y)

\* ---------------------------------------------------------------- C2
\* C2 (as claimed): once backup() has listed a dataset that holds generational
\* snapshots, the last snapshot it keeps as the base of the transfer is the
\* one with the greatest creation time over all tiers, whatever the order of
\* the listing.
C2_BaseIsMostRecent ==
    \A p \in Procs :
        (faults = 0 /\ PastListing(p) /\ GenNames(inv0[p]) # {}) =>
            /\ loc[p].last_snapshot # <<>>
            /\ get_full_qualified_snap_name(loc[p].last_snapshot[1]) \in GenNames(inv0[p])
            /\ \A n \in GenNames(inv0[p]) :
                   TimeOf(n) <= loc[p].last_snapshot[1].backup_time

C4_MutualExclusion ==
    /\ Cardinality({p \in Procs : pc[p] \in LockedPcs}) <= 1
    /\ \A p \in Procs : pc[p] \in LockedPcs => lockHolder = p

\* C4 witness: one invocation runs backup() while another one has asked for
\* the lock.
C4_Witness ==
    \E p, q \in Procs :
        /\ pc[p] \in {"probe_backup", "list", "prune", "send", "export"}
        /\ pc[q] = "acquire" /\ waited[q]

\* ---------------------------------------------------------------- C5
\* C5 (as claimed): whenever an invocation leaves the guarded section,
\* normally or by a fatal error, the lock is released and the run file is
\* empty.
C5_ReleasedAndCleared ==
    [][\A p \in Procs :
          (pc[p] \in LockedPcs /\ Ended(p)') =>
              /\ lockHolder' # p
              /\ runFile' = <<>>]_vars

\* C5 (amended): whenever an invocation leaves the guarded section the lock
\* is released; the run file is empty after a normal completion and still
\* holds the process id after a fatal error.
C5_ReleasedClearedOnSuccess ==
    [][\A p \in Procs :
          (pc[p] \in LockedPcs /\ Ended(p)') =>
              /\ lockHolder' = 0
              /\ pc'[p] = "done" => runFile' = <<>>
              /\ pc'[p] = "exited" => runFile' = <<p>>]_vars

\* C5 witness: an invocation has ended by a fatal error; the lock is free and
\* the run file holds its process id.
C5_Witness ==
    \E p \in Procs :
        /\ pc[p] = "exited" /\ exit[p].code = 1
        /\ lockHolder = 0 /\ runFile = <<p>>

\* ---------------------------------------------------------------- C6
\* C6 (as claimed): when a run has ended, normally or by a fatal error, it
\* has exported the backup pool as often as it has imported it: a pool that
\* the run imported is not left imported, a pool that it did not import is
\* not exported.
C6_ExportIffImported ==
    \A p \in Procs :
        (faults = 0 /\ Ended(p)) =>
            Cardinality(PoolOps(p, "zpool export")) = Cardinality(PoolOps(p, "zpool import"))

\* ---------------------------------------------------------------- C7
\* C7: a probe of the source pool that finds it not available or not ONLINE
\* is the last command of the run; the run has ended with status 1 and its
\* last notification is a failure that names the pool and tells that it is
\* not available or gives its health.
IsBadSourceProbe(c) ==
    /\ c.cmd = "zpool get" /\ c.pool = config.pool
    /\ c.rc # 0 \/ srcPool.health # "ONLINE"

C8_FullIffNoSnapshot ==
    \A p \in Procs :
        (faults = 0 /\ CycleOver(p)) =>
            /\ Cardinality(Succeeded(p, "zfs send")) = 1
            /\ \A i \in Succeeded(p, "zfs send") :
                   IF GenNames(inv0[p]) = {} THEN cmds[p][i].base = <<>>
                   ELSE /\ cmds[p][i].base # <<>>
                        /\ \E n \in GenNames(inv0[p]) : n.label = cmds[p][i].base[1]

\* ---------------------------------------------------------------- C9
\* C9 (as claimed): every listed name that get_full_qualified_snap_name
\* produces from a descriptor (prefix, tier, time) is parsed by get_snapshots
\* into that descriptor.
C9_RoundTrip ==
    \A p \in Procs :
        PastListing(p) =>
            \A i \in DOMAIN loc[p].stdout : \A ty \in Tiers : \A tm \in 1..now :
                LET d == Snapshot(config.pool, Dataset(p), config.backup_pool, ty, tm,
                                  config.prefix)
                IN  loc[p].stdout[i] = get_full_qualified_snap_name(d) =>
                        d \in Range(loc[p].all_snapshots)

\* ---------------------------------------------------------------- C10
\* C10 (as claimed): with keep-count 0 a cycle in which no command fails ends
\* normally, has created and transferred the new snapshot and leaves no
\* snapshot in the tier. Stated for a dataset that holds no generational
\* snapshot when the cycle starts, where get_snapshots returns.
C10_KeepNone ==
    \A p \in Procs :
        (faults = 0 /\ CycleOver(p) /\ KeepCount = 0 /\ GenNames(inv0[p]) = {}) =>
            /\ pc[p] # "exited"
            /\ Succeeded(p, "zfs snapshot") # {}
            /\ Succeeded(p, "zfs send") # {}
            /\ TierNow(p) = {}

\* ---------------------------------------------------------------- C11
\* the notifications of kind k that p has sent
Mails(p, k) == {i \in DOMAIN mail[p] : mail[p][i].kind = k}

\* p has probed the backup pool for its current dataset and found it ONLINE
PastProbe(p) == pc[p] \in {"list", "prune", "send", "export"}

\* C11 (as claimed): a run that has probed the backup pool and found it ONLINE
\* has sent the low-capacity warning exactly if 80 percent or more of the
\* pool are used, and goes on with the dataset in either case.
C11_WarnAtEighty ==
    \A p \in Procs :
        PastProbe(p) =>
            /\ (Mails(p, "low capacity") # {}) <=> (bakPool.capacity >= 80)
            /\ pc[p] # "exited"

\* ---------------------------------------------------------------- C12
\* the descriptor that a line of the scheme stands for
DescriptorOf(p, line) ==
    Snapshot(config.pool, Dataset(p), config.backup_pool, line.label[2].word,
             line.label[3].sec, line.label[1].word)

\* C12 (as claimed): when the listing of a dataset holds lines of the scheme
\* and other lines, get_snapshots returns without an error, and returns the
\* descriptors of the lines of the scheme, one each, in the order of the
\* listing.
C12_SkipsMalformed ==
    \A p \in Procs :
        LET lines == loc[p].stdout
            matched == SelectSeq(lines, RegexMatch)
        IN  (/\ PastListing(p)
             /\ \E i \in DOMAIN lines : RegexMatch(lines[i])
             /\ \E i \in DOMAIN lines : ~RegexMatch(lines[i])) =>
                /\ exit[p].cause # "ValueError"
                /\ loc[p].all_snapshots =
                       [i \in DOMAIN matched |-> DescriptorOf(p, matched[i])]

\* ---------------------------------------------------------------- C13
\* two executions of one command line
SameCommand(a, b) ==
    /\ a.cmd = b.cmd /\ a.pool = b.pool /\ a.ds = b.ds
    /\ a.snap = b.snap /\ a.base = b.base

\* C13 (as claimed): no step of a run executes its command a second time: no
\* invocation runs the same command line twice in a row, and a dataset is
\* listed at most once in a cycle.
C13_ExactlyOnce ==
    \A p \in Procs :
        /\ \A i \in DOMAIN cmds[p] :
               i < Len(cmds[p]) => ~SameCommand(cmds[p][i], cmds[p][i + 1])
        /\ dsIdx[p] >= 1 => Cardinality(Executed(p, "zfs list")) <= 1

\* ---------------------------------------------------------------- C14
\* the commands that change snapshots
SnapshotCmds == {"zfs snapshot", "zfs send", "zfs destroy"}

\* the commands whose non-zero exit is a fatal failure (a status query that
\* fails just reports the pool as not available)
FatalCmds == {"zpool import", "zpool export", "zfs list"} \cup SnapshotCmds

\* C14 (as claimed): after a failure notification, or after an execution of
\* import, export, listing, snapshot, transfer or destroy that exited
\* non-zero, the invocation runs no snapshot, transfer or destroy command
\* any more and has exited with status 1.
C14_FatalStopsRun ==
    \A p \in Procs :
        /\ (\E i \in DOMAIN mail[p] : mail[p][i].severity = "failure") =>
               pc[p] = "exited" /\ exit[p].code = 1
        /\ \A i \in DOMAIN cmds[p] :
               (cmds[p][i].cmd \in FatalCmds /\ cmds[p][i].rc # 0) =>
                   /\ pc[p] = "exited" /\ exit[p].code = 1
                   /\ \A j \in DOMAIN cmds[p] :
                          j > i => cmds[p][j].cmd \notin SnapshotCmds

\* ---------------------------------------------------------------- C15
\* C15 (as claimed): when an execution of the listing of the current dataset
\* has exited non-zero, the invocation has exited with status 1: it is not
\* pruning, creating or transferring on the output of that execution.
C15_ListingErrorAborts ==
    \A p \in Procs :
        (dsIdx[p] >= 1 /\ \E i \in Executed(p, "zfs list") : cmds[p][i].rc # 0) =>
            pc[p] = "exited" /\ exit[p].code = 1

\* ---------------------------------------------------------------- C16
\* position of dataset d in the configuration
DsPos(d) == CHOOSE k \in DOMAIN config.datasets : config.datasets[k] = d

\* the executions in the log of p that name a dataset
OfDataset(p) == {i \in DOMAIN cmds[p] : cmds[p][i].ds # ""}

\* C16: the log of an invocation names the datasets in the order of the
\* configuration, none before the for loop has reached it and none again
\* after the loop has passed to the next; every dataset the loop has passed
\* has been transferred; a transfer directly follows the successful creation
\* of the snapshot it sends; and between the import of the backup pool and
\* its export lies a successful transfer.
C16_DatasetOrder ==
    \A p \in Procs :
        LET log == cmds[p]
        IN  /\ \A i \in OfDataset(p) : DsPos(log[i].ds) <= dsIdx[p]
            /\ \A i, j \in OfDataset(p) :
                   i < j => DsPos(log[i].ds) <= DsPos(log[j].ds)
            /\ \A k \in DOMAIN config.datasets :
                   (k < dsIdx[p] /\ pc[p] # "exited") =>
                       \E i \in DOMAIN log :
                           /\ log[i].cmd = "zfs send" /\ log[i].rc = 0
                           /\ log[i].ds = config.datasets[k]
            /\ \A i \in DOMAIN log :
                   log[i].cmd = "zfs send" =>
                       /\ i > 1
                       /\ log[i - 1].cmd = "zfs snapshot" /\ log[i - 1].rc = 0
                       /\ log[i - 1].ds = log[i].ds /\ log[i - 1].snap = log[i].snap
            /\ \A i \in DOMAIN log :
                   log[i].cmd = "zpool export" =>
                       \E m, j \in 1..i :
                           /\ m < j
                           /\ log[m].cmd = "zpool import" /\ log[m].rc = 0
                           /\ log[j].cmd = "zfs send" /\ log[j].rc = 0
                           /\ \A n \in m..j : log[n].cmd # "zpool export"

\* C16 witness: an invocation that imported the backup pool has transferred
\* the first dataset, exported the pool and issued a command for the second
\* dataset.
C16_Witness ==
    \E p \in Procs : \E i, j, k \in DOMAIN cmds[p] :
        /\ i < j /\ j < k
        /\ cmds[p][i].cmd = "zfs send" /\ cmds[p][i].rc = 0
        /\ cmds[p][i].ds = config.datasets[1]
        /\ cmds[p][j].cmd = "zpool export" /\ cmds[p][j].rc = 0
        /\ cmds[p][k].ds = config.datasets[2]

\* ---------------------------------------------------------------- C17
\* p is about to start, or has run, an incremental transfer
IncrementalStarted(p) ==
    \/ pc[p] = "send" /\ loc[p].last_snapshot # <<>>
    \/ \E i \in DOMAIN cmds[p] : cmds[p][i].cmd = "zfs send" /\ cmds[p][i].base # <<>>

\* C17: when backup() starts an incremental transfer, the base it passes to
\* Snapshot.create exists on the source pool and on the backup pool.
C17_BaseSurvives ==
    \A p \in Procs :
        (pc[p] = "send" /\ loc[p].last_snapshot # <<>>) =>
            /\ get_full_qualified_snap_name(loc[p].last_snapshot[1]) \in srcSnaps
            /\ get_full_qualified_backup_snap_name(loc[p].last_snapshot[1]) \in bakSnaps

\* no invocation ever starts an incremental transfer: get_snapshots raises
\* on every name that would give a last snapshot (see BackupTimeGroup)
C17_NeverIncremental == \A p \in Procs : ~IncrementalStarted(p)

\* ---------------------------------------------------------------- C18
\* C18: every snapshot that a step removes from the source pool or from the
\* backup pool is a snapshot of the requested tier in the dataset that the
\* holder of the lock is processing.
C18_OnlyTierDestroyed ==
    [][\A n \in (srcSnaps \ srcSnaps') \cup (bakSnaps \ bakSnaps') :
          /\ lockHolder # 0
          /\ n.dataset = Dataset(lockHolder)
          /\ RegexMatch(n) /\ TierOf(n) = backup_type]_vars

\* no invocation ever runs zfs destroy: the eviction loop finds the list of
\* the tier's snapshots empty whenever it is reached (see Prune)
C18_NeverDestroys ==
    \A p \in Procs : \A i \in DOMAIN cmds[p] : cmds[p][i].cmd # "zfs destroy"

\* ---------------------------------------------------------------- C19
\* C19: an invocation executes a command only in a step that it begins as
\* the holder of the lock; before it has acquired the lock and after it has
\* released it, its log of commands does not grow.
C19_CommandsUnderLock ==
    [][\A p \in Procs :
          /\ cmds'[p] # cmds[p] => lockHolder = p /\ pc[p] \in LockedPcs
          /\ (pc[p] = "acquire" /\ pc'[p] = "acquire") => cmds'[p] = <<>>]_vars

\* C19 witness: the holder of the lock has run a pool command and a snapshot
\* command while another invocation has run none.
C19_Witness ==
    \E p, q \in Procs :
        /\ lockHolder = p /\ p # q /\ cmds[q] = <<>>
        /\ \E i \in DOMAIN cmds[p] : cmds[p][i].cmd = "zpool get"
        /\ \E i \in DOMAIN cmds[p] : cmds[p][i].cmd = "zfs snapshot"

====
